---- MODULE Spec2Model ----
(***************************************************************************)
(* Model of python-backend/main.py: a FastAPI gateway in front of a Spring *)
(* Boot backend.  Three routes: /health, /proxy/{path} (proxy_to_spring)   *)
(* and /api/process (process_data), plus the shutdown hook that closes the *)
(* shared httpx client.                                                    *)
(*                                                                         *)
(* Each inbound request is one task.  A handler runs up to its `await` on  *)
(* the outbound call (the ...Call actions), is suspended there, and is     *)
(* resumed with the outcome of the call (the ...Return actions).           *)
(***************************************************************************)
EXTENDS Naturals, Sequences, FiniteSets, TLC

\* Number of inbound requests the model follows concurrently.
NumReqs == 2

Reqs == 1..NumReqs

VARIABLES
    API_KEY,      \* configuration read from the environment at import time
    http_client,  \* the module-level httpx.AsyncClient
    lifecycle,    \* "running" until the shutdown event has been handled
    pc,           \* per request: "idle", "awaiting" (suspended on the call), "done"
    req,          \* per request: the inbound request
    out,          \* per request: the outbound call the handler issued
    calls,        \* per request: how many outbound calls the handler issued
    resp,         \* per request: the outcome of the outbound call
    result        \* per request: what the handler returned or raised

vars == <<API_KEY, http_client, lifecycle, pc, req, out, calls, resp, result>>

None == [kind |-> "none"]

---------------------------------------------------------------------------
(* Configuration *)

SPRING_BACKEND_URL == "http://localhost:8080"

\* Values the API_KEY environment variable takes: unset (the default "") or set.
ApiKeys == {"", "s3cret"}

\* timeout=30.0 of the shared client.
SharedTimeout == 30

\* The module-level client is the object with identity 0; a client made by
\* `async with httpx.AsyncClient()` in request r has identity r.
SharedClientId == 0

---------------------------------------------------------------------------
(* Python dicts with string keys: functions on a finite set of strings.    *)
(* Keys are case-sensitive.                                                *)

EmptyDict == <<>>

DictSet(d, k, v) == [x \in (DOMAIN d) \cup {k} |-> IF x = k THEN v ELSE d[x]]

DictPop(d, k) == [x \in (DOMAIN d) \ {k} |-> d[x]]

\* str.lower() on the header names that occur in the model.
Lower(s) ==
    CASE s \in {"Host", "HOST", "host"} -> "host"
      [] s \in {"Authorization", "AUTHORIZATION", "authorization"} -> "authorization"
      [] s \in {"X-Id", "x-id"} -> "x-id"
      [] s \in {"Content-Type", "content-type"} -> "content-type"
      [] OTHER -> s

\* request.headers: the header lines of the request as the ASGI server hands
\* them over, names lower-cased, in wire order.
RequestHeaders(raw) == [i \in 1..Len(raw) |-> <<Lower(raw[i][1]), raw[i][2]>>]

\* Headers.__getitem__: the value of the first line with that name.
HeadersGetItem(hs, k) ==
    hs[CHOOSE i \in 1..Len(hs) : hs[i][1] = k /\ \A j \in 1..(i - 1) : hs[j][1] # k][2]

\* dict(request.headers): keys() and, per key, __getitem__.
HeadersToDict(hs) ==
    [k \in {hs[i][1] : i \in 1..Len(hs)} |-> HeadersGetItem(hs, k)]

\* What the HTTP client puts on the wire for a header dict: one line per key.
\* Header names are case-insensitive on the wire, so the values a receiver
\* sees under a name are those of every key that lower-cases to it.
WireValues(d, name) == {d[k] : k \in {x \in DOMAIN d : Lower(x) = name}}

WireLines(d, name) == Cardinality({x \in DOMAIN d : Lower(x) = name})

---------------------------------------------------------------------------
(* Message bodies.  A body on the wire is a payload under a content        *)
(* coding; the bytes of a gzip-coded payload are not the bytes of the      *)
(* payload.                                                                *)

Plain(s) == [enc |-> "identity", data |-> s]

Gzip(s) == [enc |-> "gzip", data |-> s]

\* httpx Response.content: the body with its content coding decoded.
ResponseContent(r) == Plain(r.body.data)

\* json.loads on the texts that occur in the model.
IsJson(s) == s \in {"{\"ok\":true}", "{\"error\":\"down\"}", "{\"id\":7}"}

JsonLoads(s) ==
    CASE s = "{\"ok\":true}" -> [ok |-> TRUE]
      [] s = "{\"error\":\"down\"}" -> [error |-> "down"]
      [] s = "{\"id\":7}" -> [id |-> 7]

---------------------------------------------------------------------------
(* Exceptions.  The class hierarchy of the exceptions an httpx call        *)
(* raises; `except C` catches the instances of C and of its subclasses.    *)

Parent(c) ==
    CASE c = "ConnectError" -> "NetworkError"
      [] c = "NetworkError" -> "TransportError"
      [] c = "ConnectTimeout" -> "TimeoutException"
      [] c = "ReadTimeout" -> "TimeoutException"
      [] c = "TimeoutException" -> "TransportError"
      [] c = "TransportError" -> "RequestError"
      [] c = "RequestError" -> "HTTPError"
      [] c = "HTTPError" -> "Exception"
      [] c = "InvalidURL" -> "Exception"
      [] c = "JSONDecodeError" -> "ValueError"
      [] c = "ValueError" -> "Exception"
      [] c = "TypeError" -> "Exception"
      [] c = "Exception" -> "BaseException"
      [] OTHER -> "BaseException"

RECURSIVE IsInstance(_, _)
IsInstance(c, of) ==
    IF c = of THEN TRUE
    ELSE IF c = "BaseException" THEN FALSE
    ELSE IsInstance(Parent(c), of)

Exc(cls, msg) == [kind |-> "exception", cls |-> cls, msg |-> msg]

---------------------------------------------------------------------------
(* Inputs *)

\* Inbound /proxy requests: header lines as sent by the caller (any letter
\* case, repeated names, with and without a Host or Authorization line).
ProxyInputs ==
    { [route |-> "proxy", method |-> "GET", path |-> "api/users",
       params |-> EmptyDict, body |-> "",
       raw_headers |-> << <<"Host", "gw:5000">>, <<"X-Id", "7">> >>],
      [route |-> "proxy", method |-> "POST", path |-> "api/../admin",
       params |-> ("page" :> "2"), body |-> "{\"x\":1}",
       raw_headers |-> << <<"host", "gw:5000">>, <<"Authorization", "Basic abc">>,
                          <<"Content-Type", "application/json">> >>],
      [route |-> "proxy", method |-> "PUT", path |-> "",
       params |-> EmptyDict, body |-> "raw-bytes",
       raw_headers |-> << <<"AUTHORIZATION", "Bearer old">>, <<"X-Id", "7">>,
                          <<"x-id", "8">> >>],
      [route |-> "proxy", method |-> "DELETE", path |-> "a?b=c",
       params |-> EmptyDict, body |-> "",
       raw_headers |-> << <<"HOST", "other.example">>,
                          <<"authorization", "Token xyz">> >>],
      [route |-> "proxy", method |-> "GET", path |-> "tab\there",
       params |-> EmptyDict, body |-> "",
       raw_headers |-> << <<"Host", "gw:5000">> >>] }

\* Inbound /api/process requests: the parsed JSON object.
ProcessInputs ==
    { [route |-> "process", data |-> [x |-> 1]],
      [route |-> "process", data |-> EmptyDict] }

HealthInput == [route |-> "health"]

UpstreamResponse(status, headers, body) ==
    [kind |-> "response", status_code |-> status, headers |-> headers, body |-> body]

\* What the upstream answers to a proxied request.
ProxyResponses ==
    { UpstreamResponse(200, ("content-type" :> "application/json"), Plain("{\"ok\":true}")),
      UpstreamResponse(404, ("content-type" :> "text/plain"), Plain("not found")),
      UpstreamResponse(503, ("content-type" :> "application/json"),
                       Plain("{\"error\":\"down\"}")),
      UpstreamResponse(200, ("content-type" :> "text/plain") @@ ("content-encoding" :> "gzip"),
                       Gzip("hello")) }

\* How http_client.request fails in transport: connection refused, DNS or
\* TLS failure (ConnectError), and the timeout expiring (ConnectTimeout,
\* ReadTimeout).
ProxyFailures ==
    { Exc("ConnectError", "All connection attempts failed"),
      Exc("ConnectTimeout", ""),
      Exc("ReadTimeout", "") }

\* Paths holding an ASCII control character (/proxy/tab%09here arrives
\* decoded).  The client may refuse to build a request for such a URL.
ControlCharPaths == {"tab\there"}

InvalidURL == Exc("InvalidURL", "Invalid non-printable ASCII character in URL")

\* The outcomes of http_client.request for an outbound call.
ProxyOutcomes(call) ==
    ProxyResponses \cup ProxyFailures \cup
        (IF \E p \in ControlCharPaths : call.url = SPRING_BACKEND_URL \o "/" \o p
         THEN {InvalidURL} ELSE {})

\* What the upstream answers to POST /api/processed-data.
ProcessResponses ==
    { UpstreamResponse(200, ("content-type" :> "application/json"), Plain("{\"id\":7}")),
      UpstreamResponse(503, ("content-type" :> "application/json"),
                       Plain("{\"error\":\"down\"}")),
      UpstreamResponse(502, ("content-type" :> "text/html"), Plain("<html>Bad Gateway</html>")) }

\* How client.post fails: the network, or serialising the json argument.
ProcessFailures ==
    { Exc("ConnectError", "All connection attempts failed"),
      Exc("ValueError", "Out of range float values are not JSON compliant") }

---------------------------------------------------------------------------
(* What a handler returns or raises *)

Response(content, status_code, headers) ==
    [kind |-> "Response", content |-> content, status_code |-> status_code,
     headers |-> headers]

JSONResponse(content, status_code) ==
    [kind |-> "JSONResponse", content |-> content, status_code |-> status_code]

HTTPException(status_code, detail) ==
    [kind |-> "HTTPException", status_code |-> status_code, detail |-> detail]

\* An exception no except clause of the handler catches leaves the handler.
Unhandled(e) == [kind |-> "unhandled", cls |-> e.cls, msg |-> e.msg]

---------------------------------------------------------------------------
(* proxy_to_spring *)

ProxyUrl(path) == SPRING_BACKEND_URL \o "/" \o path

\* Mutant: pops "Host" where the keys are lower-case.
PrepareHeaders_popCapitalHost(rq, key) ==
    LET headers == DictPop(HeadersToDict(RequestHeaders(rq.raw_headers)), "Host")
    IN  IF key # "" THEN DictSet(headers, "Authorization", "Bearer " \o key)
        ELSE headers

\* Mutant: sets Authorization without testing API_KEY.
PrepareHeaders_alwaysInject(rq, key) ==
    LET headers == DictPop(HeadersToDict(RequestHeaders(rq.raw_headers)), "host")
    IN  DictSet(headers, "Authorization", "Bearer " \o key)

PrepareHeaders(rq, key) ==
    LET headers == DictPop(HeadersToDict(RequestHeaders(rq.raw_headers)), "host")
    IN  IF key # "" THEN DictSet(headers, "Authorization", "Bearer " \o key)
        ELSE headers

\* Mutant: a client made for the call.
ProxyClient_perCall(r) == r

\* The client proxy_to_spring sends with.
ProxyClient(r) == http_client.id

ProxyRequest(r, rq, key) ==
    [client |-> ProxyClient(r), timeout |-> http_client.timeout,
     method |-> rq.method, url |-> ProxyUrl(rq.path),
     headers |-> PrepareHeaders(rq, key), params |-> rq.params, content |-> rq.body]

\* Mutant: except httpx.NetworkError
ProxyCatches_networkOnly(e) == IsInstance(e.cls, "NetworkError")

\* except httpx.RequestError
ProxyCatches(e) == IsInstance(e.cls, "RequestError")

ProxyResult(o) ==
    IF o.kind = "response"
    THEN Response(ResponseContent(o), o.status_code, o.headers)
    ELSE IF ProxyCatches(o)
         THEN HTTPException(500, "Error communicating with backend: " \o o.msg)
         ELSE Unhandled(o)

---------------------------------------------------------------------------
(* process_data *)

\* datetime.now().isoformat()
IsoNow == "2024-05-01T10:00:00.000001"

ProcessedData(data) == [processed |-> TRUE, original |-> data, timestamp |-> IsoNow]

ProcessRequest(r, rq) ==
    [client |-> r,
     method |-> "POST", url |-> SPRING_BACKEND_URL \o "/api/processed-data",
     headers |-> ("Content-Type" :> "application/json"), params |-> EmptyDict,
     json |-> ProcessedData(rq.data)]

\* Mutant: except httpx.RequestError, as in proxy_to_spring
ProcessCatches_requestErrorOnly(e) == IsInstance(e.cls, "RequestError")

\* except Exception
ProcessCatches(e) == IsInstance(e.cls, "Exception")

\* The exception raised inside the try block, if any: the one client.post
\* raised, or the one response.json() raises on a body that is not JSON.
ProcessRaised(o) ==
    IF o.kind = "exception" THEN o
    ELSE IF ~IsJson(ResponseContent(o).data)
         THEN Exc("JSONDecodeError", "Expecting value: line 1 column 1 (char 0)")
         ELSE None

ProcessResult(o) ==
    LET e == ProcessRaised(o)
    IN  IF e = None
        THEN JSONResponse(JsonLoads(ResponseContent(o).data), o.status_code)
        ELSE IF ProcessCatches(e) THEN HTTPException(500, e.msg)
             ELSE Unhandled(e)

---------------------------------------------------------------------------
(* The state machine *)

Init ==
    /\ API_KEY \in ApiKeys
    /\ http_client = [id |-> SharedClientId, timeout |-> SharedTimeout, state |-> "open"]
    /\ lifecycle = "running"
    /\ pc = [r \in Reqs |-> "idle"]
    /\ req = [r \in Reqs |-> None]
    /\ out = [r \in Reqs |-> None]
    /\ calls = [r \in Reqs |-> 0]
    /\ resp = [r \in Reqs |-> None]
    /\ result = [r \in Reqs |-> None]

\* Mutant: a blocking call inside the handler holds the event loop.
EventLoopFree_blocking(r) == \A q \in Reqs \ {r} : pc[q] # "awaiting"

\* A handler is an `async def` and waits for the upstream with `await`: a
\* suspended handler leaves the event loop to every other task.
EventLoopFree(r) == TRUE

\* The server dispatches requests to the app while it is running.
Serving == lifecycle = "running"

\* @app.get("/health")
HealthCheck(r) ==
    /\ Serving /\ EventLoopFree(r)
    /\ pc[r] = "idle"
    /\ pc' = [pc EXCEPT ![r] = "done"]
    /\ req' = [req EXCEPT ![r] = HealthInput]
    /\ result' = [result EXCEPT ![r] =
                    [kind |-> "dict",
                     content |-> [status |-> "healthy", service |-> "python-backend"]]]
    /\ UNCHANGED <<API_KEY, http_client, lifecycle, out, calls, resp>>

\* proxy_to_spring up to `await http_client.request(...)`.
ProxyCall(r) ==
    /\ Serving /\ EventLoopFree(r)
    /\ pc[r] = "idle"
    /\ \E rq \in ProxyInputs :
          /\ req' = [req EXCEPT ![r] = rq]
          /\ out' = [out EXCEPT ![r] = ProxyRequest(r, rq, API_KEY)]
    /\ calls' = [calls EXCEPT ![r] = @ + 1]
    /\ pc' = [pc EXCEPT ![r] = "awaiting"]
    /\ UNCHANGED <<API_KEY, http_client, lifecycle, resp, result>>

\* Mutant: a failed call is issued once more before the handler gives up.
ProxyReturn_retry(r) ==
    /\ EventLoopFree(r)
    /\ pc[r] = "awaiting" /\ req[r].route = "proxy"
    /\ \E o \in ProxyOutcomes(out[r]) :
          /\ resp' = [resp EXCEPT ![r] = o]
          /\ result' = [result EXCEPT ![r] = ProxyResult(o)]
          /\ calls' = [calls EXCEPT ![r] = IF o.kind = "exception" THEN @ + 1 ELSE @]
    /\ pc' = [pc EXCEPT ![r] = "done"]
    /\ UNCHANGED <<API_KEY, http_client, lifecycle, req, out>>

\* proxy_to_spring from the outcome of the call to its return or raise.
ProxyReturn(r) ==
    /\ EventLoopFree(r)
    /\ pc[r] = "awaiting" /\ req[r].route = "proxy"
    /\ \E o \in ProxyOutcomes(out[r]) :
          /\ resp' = [resp EXCEPT ![r] = o]
          /\ result' = [result EXCEPT ![r] = ProxyResult(o)]
    /\ pc' = [pc EXCEPT ![r] = "done"]
    /\ UNCHANGED <<API_KEY, http_client, lifecycle, req, out, calls>>

\* process_data up to `await client.post(...)`.
ProcessCall(r) ==
    /\ Serving /\ EventLoopFree(r)
    /\ pc[r] = "idle"
    /\ \E rq \in ProcessInputs :
          /\ req' = [req EXCEPT ![r] = rq]
          /\ out' = [out EXCEPT ![r] = ProcessRequest(r, rq)]
    /\ calls' = [calls EXCEPT ![r] = @ + 1]
    /\ pc' = [pc EXCEPT ![r] = "awaiting"]
    /\ UNCHANGED <<API_KEY, http_client, lifecycle, resp, result>>

\* process_data from the outcome of the call to its return or raise.
ProcessReturn(r) ==
    /\ EventLoopFree(r)
    /\ pc[r] = "awaiting" /\ req[r].route = "process"
    /\ \E o \in ProcessResponses \cup ProcessFailures :
          /\ resp' = [resp EXCEPT ![r] = o]
          /\ result' = [result EXCEPT ![r] = ProcessResult(o)]
    /\ pc' = [pc EXCEPT ![r] = "done"]
    /\ UNCHANGED <<API_KEY, http_client, lifecycle, req, out, calls>>

\* @app.on_event("shutdown"): the lifespan shutdown event, which the server
\* sends once it has stopped accepting connections and the requests in
\* flight have finished.
shutdown_event ==
    /\ lifecycle = "running"
    /\ \A r \in Reqs : pc[r] # "awaiting"
    /\ http_client' = [http_client EXCEPT !.state = "closed"]
    /\ lifecycle' = "stopped"
    /\ UNCHANGED <<API_KEY, pc, req, out, calls, resp, result>>

Next ==
    \/ \E r \in Reqs : HealthCheck(r)
    \/ \E r \in Reqs : ProxyCall(r)
    \/ \E r \in Reqs : ProxyReturn(r)
    \/ \E r \in Reqs : ProcessCall(r)
    \/ \E r \in Reqs : ProcessReturn(r)
    \/ shutdown_event

Spec == Init /\ [][Next]_vars

---------------------------------------------------------------------------
(* Properties *)

Issued(r, route) == pc[r] # "idle" /\ req[r].route = route

Done(r, route) == pc[r] = "done" /\ req[r].route = route

\* request.headers of request r
Inbound(r) == RequestHeaders(req[r].raw_headers)

InboundKeys(r) == {Inbound(r)[i][1] : i \in 1..Len(Inbound(r))}

\* C1: with API_KEY set, the headers of every outbound /proxy call carry
\* exactly one Authorization line and its value is "Bearer <API_KEY>",
\* whatever the inbound request supplied.
C1_OnlyInjectedCredential ==
    \A r \in Reqs :
        (Issued(r, "proxy") /\ API_KEY # "") =>
            /\ WireLines(out[r].headers, "authorization") = 1
            /\ WireValues(out[r].headers, "authorization") = {"Bearer " \o API_KEY}

\* C2: whatever the upstream answered, the response proxy_to_spring returns
\* has the upstream's status code, the upstream's body and the upstream's
\* headers.
C2_UpstreamResponseVerbatim ==
    \A r \in Reqs :
        (Done(r, "proxy") /\ resp[r].kind = "response") =>
            /\ result[r].kind = "Response"
            /\ result[r].status_code = resp[r].status_code
            /\ result[r].content = resp[r].body
            /\ result[r].headers = resp[r].headers

\* C3: every /proxy request ends either in a response relayed from the
\* upstream or in a status-500 error with a descriptive detail.
C3_RelayOr500 ==
    \A r \in Reqs :
        Done(r, "proxy") =>
            \/ result[r].kind = "Response" /\ resp[r].kind = "response"
            \/ /\ result[r].kind = "HTTPException"
               /\ result[r].status_code = 500
               /\ result[r].detail # ""

\* The transport-level failures: connection refused, DNS and TLS failures
\* (ConnectError) and the timeout expiring.
TransportFailures == {"ConnectError", "ConnectTimeout", "ReadTimeout"}

ErrorPrefix == "Error communicating with backend: "

\* C4: a transport-level failure of the outbound /proxy call, a timeout
\* included, gives status 500 with a detail starting with
\* "Error communicating with backend: ".
C4_TransportFailureIs500 ==
    \A r \in Reqs :
        (Done(r, "proxy") /\ resp[r].kind = "exception"
                          /\ resp[r].cls \in TransportFailures) =>
            /\ result[r].kind = "HTTPException"
            /\ result[r].status_code = 500
            /\ \E o \in ProxyFailures : result[r].detail = ErrorPrefix \o o.msg

C4_Witness ==
    \E r \in Reqs :
        /\ Done(r, "proxy") /\ resp[r].kind = "exception"
        /\ resp[r].cls = "ReadTimeout"
        /\ result[r].kind = "HTTPException"

\* C5: a /proxy or /api/process request that has reached its outbound call
\* has issued exactly one, also once it has ended in an error.
C5_ExactlyOneOutboundCall ==
    \A r \in Reqs :
        (Issued(r, "proxy") \/ Issued(r, "process")) => calls[r] = 1

C5_Witness ==
    /\ \E r \in Reqs : Done(r, "proxy") /\ resp[r].kind = "exception" /\ calls[r] = 1
    /\ \E r \in Reqs : Done(r, "process") /\ resp[r].kind = "exception" /\ calls[r] = 1

C9_HostStrippedOthersKept ==
    \A r \in Reqs :
        Issued(r, "proxy") =>
            /\ WireLines(out[r].headers, "host") = 0
            /\ \A k \in InboundKeys(r) \ {"host"} :
                  /\ k \in DOMAIN out[r].headers
                  /\ out[r].headers[k] = HeadersGetItem(Inbound(r), k)

C9_Witness ==
    /\ API_KEY # ""
    /\ \E r \in Reqs : /\ Issued(r, "proxy")
                       /\ \E i \in 1..Len(req[r].raw_headers) :
                             req[r].raw_headers[i][1] = "HOST"
    /\ \E r \in Reqs : /\ Issued(r, "proxy")
                       /\ "x-id" \in InboundKeys(r)

\* C10: with API_KEY empty, the Authorization values of an outbound /proxy
\* call are those of the inbound request: its value if it has one, none
\* otherwise.
C10_NoKeyPassThrough ==
    \A r \in Reqs :
        (Issued(r, "proxy") /\ API_KEY = "") =>
            WireValues(out[r].headers, "authorization") =
                IF "authorization" \in InboundKeys(r)
                THEN {HeadersGetItem(Inbound(r), "authorization")}
                ELSE {}

C10_Witness ==
    /\ API_KEY = ""
    /\ \E r \in Reqs : Issued(r, "proxy") /\ "authorization" \in InboundKeys(r)
    /\ \E r \in Reqs : Issued(r, "proxy") /\ "authorization" \notin InboundKeys(r)

====
